---- MODULE Spec2Model ----
(***************************************************************************)
(* examples/data_channel/sportmode/sportmode_debug.py                      *)
(*                                                                         *)
(* The script is one coroutine (main) that is suspended at an await and    *)
(* resumed with the awaited call's result.  A state of the model is the    *)
(* coroutine suspended at one await (pc names the await); an action        *)
(* resumes it with one result and runs the synchronous code up to the next *)
(* await, or to the end of main.  The signal handler runs between two such *)
(* steps.  Since kill_now is read only at the checks after an await, a     *)
(* signal delivered anywhere between two checks is observed exactly as one *)
(* delivered while the coroutine is suspended.                             *)
(***************************************************************************)
EXTENDS Integers, Sequences, FiniteSets, TLC

VARIABLES
    pc,                           \* the await the program is suspended at
    caller,                       \* who called connect_with_retry: "main" or "test"
    kill_now,                     \* GracefulKiller.kill_now
    conn,                         \* main's conn: "None" or "Go2WebRTCConnection"
    failFirst,                    \* the connection stub: number of failing connects, or Always
    max_retries, delay,           \* connect_with_retry's arguments
    attempt,                      \* connect_with_retry's loop variable
    attempts,                     \* number of conn.connect() calls made
    sleeps,                       \* the asyncio.sleep(delay) calls of connect_with_retry
    crRet,                        \* connect_with_retry's return value, "none" before it returns
    dcOpen,                       \* how wait_datachannel_open ended, "none" before
    log,                          \* main's publish requests and pauses, in order
    response,                     \* the reply to the mode query
    parsed,                       \* json.loads was called on the reply's data
    current_motion_switcher_mode, \* main's local, Unbound until assigned
    lastStatus,                   \* the status code of the last response received
    i,                            \* number of idle-loop pauses started
    idleSecs,                     \* seconds of asyncio.sleep asked for by the idle loop
    handler,                      \* the except clause of main that ran
    cleanups,                     \* number of times the cleanup block was entered
    topHandler,                   \* the except clause of __main__ that ran
    exitCode                      \* the process's exit status, NoExit while it runs

vars == <<pc, caller, kill_now, conn, failFirst, max_retries, delay, attempt,
          attempts, sleeps, crRet, dcOpen, log, response, parsed,
          current_motion_switcher_mode, lastStatus, i, idleSecs, handler, cleanups,
          topHandler, exitCode>>

crArgs  == <<caller, failFirst, max_retries, delay>>
crVars  == <<attempt, attempts, sleeps, crRet>>
seqVars == <<dcOpen, log, response, parsed, current_motion_switcher_mode,
            lastStatus, i, idleSecs>>
topVars == <<topHandler, exitCode>>

-----------------------------------------------------------------------------
(* Bounds of the model *)

\* the stub fails on its first failFirst connects, failFirst \in 0..MaxFailFirst
MaxFailFirst == 4
\* the test harness calls connect_with_retry with max_retries \in -1..MaxRetriesArg
MaxRetriesArg == 4

-----------------------------------------------------------------------------
(* Program constants *)

DefaultMaxRetries == 3
DefaultDelay == 5
PauseAfterSwitchNormal == 5
PauseAfterHello == 1
PauseAfterMove == 3
PauseAfterSwitchAi == 10
PauseAfterStandOut == 5
IdleCount == 600
IdlePause == 1
ExitSuccess == 0

Always == -1
NoExit == -1
Unbound == "<unbound>"

-----------------------------------------------------------------------------
(* The collaborators: the driver library and the test stub *)

\* the classes of exception main's except clauses tell apart
ExcKinds == {"TimeoutError", "ConnectionError", "Exception"}

\* the connect stub fails on call number n (1-based) or succeeds
StubFails(n) == failFirst = Always \/ n <= failFirst

\* wait_datachannel_open(timeout) returns, or fails with a timeout error
DcOpenOutcomes == {"ok", "TimeoutError"}

\* publish_request_new returns a response, or raises
PublishOutcomes == {"ok"} \cup ExcKinds

\* the nested status code of a response, and its JSON-encoded data
StatusCodes == {0, 3203}
Payloads == {"{\"name\": \"normal\"}", "{\"name\": \"ai\"}", "{\"name\": \"mcf\"}",
             "{}", "<html>"}
NoResponse == [code |-> -1, data |-> "None"]
Responses == [code : StatusCodes, data : Payloads]

\* the delays the test harness passes
TestDelays == {1, 5}

-----------------------------------------------------------------------------
(* Pure helpers *)

\* json.loads(response['data']['data']): the parsed object, or a decode error.
\* name is the value under the key 'name', Unbound when the object has none.
JsonLoads(s) ==
    CASE s = "{\"name\": \"normal\"}" -> [valid |-> TRUE, name |-> "normal"]
      [] s = "{\"name\": \"ai\"}"     -> [valid |-> TRUE, name |-> "ai"]
      [] s = "{\"name\": \"mcf\"}"    -> [valid |-> TRUE, name |-> "mcf"]
      [] s = "{}"                     -> [valid |-> TRUE, name |-> Unbound]
      [] OTHER                        -> [valid |-> FALSE, name |-> Unbound]

\* the status check left out: every response counts as a success
StatusIgnored(r) == TRUE

\* response['data']['header']['status']['code'] == 0
StatusOk(r) == r.code = 0

\* an entry of log: a publish_request_new call or an asyncio.sleep call of main
Publish(topic, api_id, parameter) ==
    [op |-> "publish", topic |-> topic, api_id |-> api_id, parameter |-> parameter, secs |-> 0]
Pause(secs) ==
    [op |-> "sleep", topic |-> "", api_id |-> "", parameter |-> "", secs |-> secs]

QueryMode    == Publish("MOTION_SWITCHER", "1001", "")
SwitchNormal == Publish("MOTION_SWITCHER", "1002", "name=normal")
Hello        == Publish("SPORT_MOD", "Hello", "")
MoveForward  == Publish("SPORT_MOD", "Move", "x=0.5,y=0,z=0")
MoveBackward == Publish("SPORT_MOD", "Move", "x=-0.5,y=0,z=0")
SwitchAi     == Publish("MOTION_SWITCHER", "1002", "name=ai")
StandOutOn   == Publish("SPORT_MOD", "StandOut", "data=True")
StandOutOff  == Publish("SPORT_MOD", "StandOut", "data=False")

Requests(l) == SelectSeq(l, LAMBDA e : e.op = "publish")
Pauses(l)   == SelectSeq(l, LAMBDA e : e.op = "sleep")

\* `except ConnectionError` in place of `except Exception`
CrCatchesConnectionErrorOnly(kind) == kind = "ConnectionError"

\* connect_with_retry: `except Exception` catches every kind
CrCatches(kind) == kind \in ExcKinds

\* `range(max_retries - 1)` in place of `range(max_retries)`
CrInRangeOffByOne(a, mr) == a < mr - 1

\* `range(max_retries + 1)` in place of `range(max_retries)`
CrInRangeInclusive(a, mr) == a <= mr

\* connect_with_retry: `for attempt in range(max_retries)` has a next iteration
CrInRange(a, mr) == a < mr

\* `attempt < max_retries` in place of `attempt < max_retries - 1`
CrRetriesAfterLast(a, mr) == a < mr

\* connect_with_retry: `if attempt < max_retries - 1`: sleep and retry, else give up
CrRetries(a, mr) == a < mr - 1

\* main without its `except Exception` clause
MainHandlerNoCatchAll(kind) ==
    CASE kind = "TimeoutError"    -> "timeout"
      [] kind = "ConnectionError" -> "connection"
      [] OTHER                    -> "propagate"

\* main with `except Exception` as its first except clause
MainHandlerCatchAllFirst(kind) == "unexpected"

\* main: the except clause that takes an exception of this kind
MainHandler(kind) ==
    CASE kind = "TimeoutError"    -> "timeout"
      [] kind = "ConnectionError" -> "connection"
      [] OTHER                    -> "unexpected"

\* main: `if killer.kill_now: return` after an await
Cancelled(k) == k

\* main: `if conn:` guarding the cleanup block
NeedsCleanup(c) == c # "None"

\* __main__: the except clause taking what asyncio.run raised
TopHandler(raised) ==
    CASE raised = "none"              -> "none"
      [] raised = "KeyboardInterrupt" -> "interrupted"
      [] OTHER                        -> "fatal"

\* `sys.exit(1)` after an exception left asyncio.run
ExitStatusOfHandler(h) == IF h = "none" THEN 0 ELSE 1

\* __main__: `finally: sys.exit(0)`
ExitStatus(h) == ExitSuccess

-----------------------------------------------------------------------------
(* Control-flow fragments shared by the actions *)

\* main: where control is once the finally block is done
MainExit(h) == IF h = "propagate" THEN "main_raised" ELSE "main_returned"

\* main: leave the try block with handler h ("none": a plain return), then the
\* finally block: with a connection, print and start asyncio.sleep(1)
Finally(h, c) ==
    /\ handler' = h
    /\ IF NeedsCleanup(c)
         THEN cleanups' = cleanups + 1 /\ pc' = "cleanup_sleep"
         ELSE cleanups' = cleanups /\ pc' = MainExit(h)

\* main: go on to the next await inside the try block
Goto(p) == pc' = p /\ UNCHANGED <<handler, cleanups>>

\* main: an exception of this kind is raised inside the try block
Raise(kind, c) == Finally(MainHandler(kind), c)

\* main calling connect_with_retry without looking at what it returns
CrReturnUnchecked(r, c) ==
    /\ crRet' = r
    /\ IF caller = "test" THEN Goto("cr_returned") ELSE Goto("await_dc_open")

\* connect_with_retry returns r to its caller.  main: `if not await
\* connect_with_retry(conn): return`, else start wait_datachannel_open
CrReturn(r, c) ==
    /\ crRet' = r
    /\ IF caller = "test" THEN Goto("cr_returned")
       ELSE IF r = "True" THEN Goto("await_dc_open")
       ELSE Finally("none", c)

\* an exception leaves connect_with_retry
CrPropagate(kind, c) ==
    /\ crRet' = crRet
    /\ IF caller = "test" THEN Goto("cr_raised") ELSE Raise(kind, c)

\* connect_with_retry: iteration a of the for loop starts, or the loop is over
\* and the function returns False
CrIterate(a, c) ==
    IF CrInRange(a, max_retries)
      THEN /\ attempt' = a
           /\ attempts' = attempts + 1
           /\ crRet' = crRet
           /\ Goto("await_connect")
      ELSE /\ UNCHANGED <<attempt, attempts>>
           /\ CrReturn("False", c)

-----------------------------------------------------------------------------
(* connect_with_retry *)

\* `await conn.connect()` is over: it returned, or it raised
CrWakeFromConnect ==
    /\ pc = "await_connect"
    /\ IF ~StubFails(attempts)
         THEN /\ CrReturn("True", conn)
              /\ UNCHANGED <<attempt, attempts, sleeps>>
         ELSE \E kind \in ExcKinds :
                IF ~CrCatches(kind)
                  THEN /\ CrPropagate(kind, conn)
                       /\ UNCHANGED <<attempt, attempts, sleeps>>
                  ELSE IF CrRetries(attempt, max_retries)
                    THEN /\ sleeps' = Append(sleeps, delay)
                         /\ Goto("retry_sleep")
                         /\ UNCHANGED <<attempt, attempts, crRet>>
                    ELSE /\ CrReturn("False", conn)
                         /\ UNCHANGED <<attempt, attempts, sleeps>>
    /\ UNCHANGED <<crArgs, kill_now, conn, seqVars, topVars>>

\* `await asyncio.sleep(delay)` is over: the next iteration
CrWakeFromSleep ==
    /\ pc = "retry_sleep"
    /\ CrIterate(attempt + 1, conn)
    /\ UNCHANGED <<crArgs, kill_now, conn, sleeps, seqVars, topVars>>

\* the test calls connect_with_retry(stub, max_retries, delay)
TestCall ==
    /\ pc = "test_call"
    /\ CrIterate(0, conn)
    /\ UNCHANGED <<crArgs, kill_now, conn, sleeps, seqVars, topVars>>

-----------------------------------------------------------------------------
(* GracefulKiller *)

\* a handler that sets the flag and then raises, as the default SIGINT handler
\* does: the exception ends main where it is suspended
HandleSignalAndRaise ==
    /\ caller = "main"
    /\ pc \notin {"start", "exited"}
    /\ kill_now' = TRUE
    /\ pc' = "main_raised"
    /\ UNCHANGED <<crArgs, conn, crVars, seqVars, handler, cleanups, topVars>>

\* _handle_signal, once main has installed it and until the process exits
HandleSignal ==
    /\ caller = "main"
    /\ pc \notin {"start", "exited"}
    /\ kill_now' = TRUE
    /\ UNCHANGED <<pc, crArgs, conn, crVars, seqVars, handler, cleanups, topVars>>

-----------------------------------------------------------------------------
(* main *)

\* what an action of the command sequence leaves alone
mainFrame == <<crArgs, kill_now, conn, crVars, topVars>>

\* the switch to "normal" made whatever the mode is
SwitchAlways(mode) == TRUE

\* `if current_motion_switcher_mode != "normal"`
SwitchNeeded(mode) == mode # "normal"

\* each request in a try/except of its own: its exception is logged and the
\* sequence goes on
AfterPublishSwallow(here, secs, next) ==
    /\ pc = here
    /\ \E out \in PublishOutcomes :
         /\ IF out = "ok"
              THEN (\E code \in StatusCodes : lastStatus' = code) /\ handler' = handler
              ELSE lastStatus' = lastStatus /\ handler' = MainHandler(out)
         /\ log' = Append(log, Pause(secs))
         /\ pc' = next
         /\ cleanups' = cleanups
    /\ UNCHANGED <<mainFrame, dcOpen, response, parsed, current_motion_switcher_mode,
                   i, idleSecs>>

\* a publish_request_new whose response is not looked at is over: the pause
\* after it starts, or its exception is raised
AfterPublish(here, secs, next) ==
    /\ pc = here
    /\ \E out \in PublishOutcomes :
         IF out = "ok"
           THEN /\ \E code \in StatusCodes : lastStatus' = code
                /\ log' = Append(log, Pause(secs)) /\ Goto(next)
           ELSE /\ lastStatus' = lastStatus
                /\ log' = log /\ Raise(out, conn)
    /\ UNCHANGED <<mainFrame, dcOpen, response, parsed, current_motion_switcher_mode,
                   i, idleSecs>>

\* a pause is over: with `checks`, `if killer.kill_now: return` comes first;
\* then the next request is published
AfterPause(here, checks, req, next) ==
    /\ pc = here
    /\ IF checks /\ Cancelled(kill_now)
         THEN log' = log /\ Finally("none", conn)
         ELSE log' = Append(log, req) /\ Goto(next)
    /\ UNCHANGED <<mainFrame, dcOpen, response, parsed, current_motion_switcher_mode,
                   lastStatus, i, idleSecs>>

\* asyncio.run(main()) up to the first await: GracefulKiller(), the connection
\* object, and the call of connect_with_retry(conn)
StartMain ==
    /\ pc = "start"
    /\ kill_now' = FALSE
    /\ \E out \in {"ok"} \cup ExcKinds :
         IF out = "ok"
           THEN /\ conn' = "Go2WebRTCConnection"
                /\ CrIterate(0, conn')
           ELSE /\ conn' = "None"
                /\ Raise(out, conn')
                /\ UNCHANGED <<attempt, attempts, crRet>>
    /\ UNCHANGED <<crArgs, sleeps, seqVars, topVars>>

\* wait_datachannel_open(timeout=30) is over; the kill_now check; the mode query
WakeFromDcOpen ==
    /\ pc = "await_dc_open"
    /\ \E out \in DcOpenOutcomes :
         /\ dcOpen' = out
         /\ IF out # "ok"
              THEN log' = log /\ Raise(out, conn)
              ELSE IF Cancelled(kill_now)
                THEN log' = log /\ Finally("none", conn)
                ELSE log' = Append(log, QueryMode) /\ Goto("await_query")
    /\ UNCHANGED <<mainFrame, response, parsed, current_motion_switcher_mode,
                   lastStatus, i, idleSecs>>

\* the mode variable initialised before the query (`= None`): the comparison
\* with "normal" raises nothing
AfterQueryInitialised(m) ==
    IF SwitchNeeded(m)
      THEN log' = Append(log, SwitchNormal) /\ Goto("await_switch_normal")
      ELSE IF Cancelled(kill_now)
        THEN log' = log /\ Finally("none", conn)
        ELSE log' = Append(log, Hello) /\ Goto("await_hello")

\* lines 82-101 with the mode variable holding m: the comparison with "normal",
\* the switch request, or the kill_now check and the Hello request
AfterQuery(m) ==
    IF m = Unbound
      THEN log' = log /\ Raise("Exception", conn)
      ELSE IF SwitchNeeded(m)
        THEN log' = Append(log, SwitchNormal) /\ Goto("await_switch_normal")
        ELSE IF Cancelled(kill_now)
          THEN log' = log /\ Finally("none", conn)
          ELSE log' = Append(log, Hello) /\ Goto("await_hello")

\* the mode query is over: the status check, json.loads, data['name']
WakeFromQuery ==
    /\ pc = "await_query"
    /\ \E out \in PublishOutcomes :
         IF out # "ok"
           THEN /\ log' = log /\ Raise(out, conn)
                /\ UNCHANGED <<response, parsed, current_motion_switcher_mode, lastStatus>>
           ELSE \E r \in Responses :
                /\ response' = r
                /\ lastStatus' = r.code
                /\ IF StatusOk(r)
                     THEN /\ parsed' = TRUE
                          /\ IF JsonLoads(r.data).valid /\ JsonLoads(r.data).name # Unbound
                               THEN /\ current_motion_switcher_mode' = JsonLoads(r.data).name
                                    /\ AfterQuery(current_motion_switcher_mode')
                               ELSE /\ current_motion_switcher_mode' = current_motion_switcher_mode
                                    /\ log' = log /\ Raise("Exception", conn)
                     ELSE /\ UNCHANGED <<parsed, current_motion_switcher_mode>>
                          /\ AfterQuery(current_motion_switcher_mode)
    /\ UNCHANGED <<mainFrame, dcOpen, i, idleSecs>>

WakeFromSwitchNormal ==
    AfterPublish("await_switch_normal", PauseAfterSwitchNormal, "sleep_switch_normal")
WakeFromSwitchNormalPause ==
    AfterPause("sleep_switch_normal", TRUE, Hello, "await_hello")
WakeFromHello ==
    AfterPublish("await_hello", PauseAfterHello, "sleep_hello")
\* the two Move requests in each other's place
WakeFromHelloPauseSwapped ==
    AfterPause("sleep_hello", FALSE, MoveBackward, "await_move_forward")
WakeFromHelloPause ==
    AfterPause("sleep_hello", FALSE, MoveForward, "await_move_forward")
WakeFromMoveForward ==
    AfterPublish("await_move_forward", PauseAfterMove, "sleep_move_forward")
WakeFromMoveForwardPause ==
    AfterPause("sleep_move_forward", TRUE, MoveBackward, "await_move_backward")
WakeFromMoveBackward ==
    AfterPublish("await_move_backward", PauseAfterMove, "sleep_move_backward")
WakeFromMoveBackwardPause ==
    AfterPause("sleep_move_backward", TRUE, SwitchAi, "await_switch_ai")
WakeFromSwitchAi ==
    AfterPublish("await_switch_ai", PauseAfterSwitchAi, "sleep_switch_ai")
WakeFromSwitchAiPause ==
    AfterPause("sleep_switch_ai", TRUE, StandOutOn, "await_stand_out_on")
WakeFromStandOutOn ==
    AfterPublish("await_stand_out_on", PauseAfterStandOut, "sleep_stand_out")
WakeFromStandOutPause ==
    AfterPause("sleep_stand_out", FALSE, StandOutOff, "await_stand_out_off")

\* the idle loop without its `if killer.kill_now: break`
IdleIterateNoCheck(n) ==
    IF n < IdleCount
      THEN /\ i' = n + 1
           /\ idleSecs' = idleSecs + IdlePause
           /\ Goto("sleep_idle")
      ELSE /\ UNCHANGED <<i, idleSecs>>
           /\ Finally("none", conn)

\* `for i in range(600)`: iteration n starts with the kill_now check, then
\* asyncio.sleep(1); after the loop, or its break, main falls into finally
IdleIterate(n) ==
    IF n < IdleCount /\ ~Cancelled(kill_now)
      THEN /\ i' = n + 1
           /\ idleSecs' = idleSecs + IdlePause
           /\ Goto("sleep_idle")
      ELSE /\ UNCHANGED <<i, idleSecs>>
           /\ Finally("none", conn)

\* the last request is over: the idle loop starts
WakeFromStandOutOff ==
    /\ pc = "await_stand_out_off"
    /\ \E out \in PublishOutcomes :
         IF out = "ok"
           THEN /\ \E code \in StatusCodes : lastStatus' = code
                /\ IdleIterate(0)
           ELSE /\ UNCHANGED <<lastStatus, i, idleSecs>>
                /\ Raise(out, conn)
    /\ UNCHANGED <<mainFrame, dcOpen, log, response, parsed, current_motion_switcher_mode>>

\* an idle pause is over
WakeFromIdlePause ==
    /\ pc = "sleep_idle"
    /\ IdleIterate(i)
    /\ UNCHANGED <<mainFrame, dcOpen, log, response, parsed, current_motion_switcher_mode,
                   lastStatus>>

\* the cleanup's asyncio.sleep(1) is over: main returns, or re-raises what no
\* except clause took
WakeFromCleanup ==
    /\ pc = "cleanup_sleep"
    /\ pc' = MainExit(handler)
    /\ UNCHANGED <<mainFrame, seqVars, handler, cleanups>>

-----------------------------------------------------------------------------
(* __main__ *)

\* asyncio.run(main()) is over and the finally clause calls sys.exit
ProgramExit ==
    /\ pc \in {"main_returned", "main_raised"}
    /\ topHandler' = TopHandler(IF pc = "main_raised" THEN "Exception" ELSE "none")
    /\ exitCode' = ExitStatus(topHandler')
    /\ pc' = "exited"
    /\ UNCHANGED <<crArgs, kill_now, conn, crVars, seqVars, handler, cleanups>>

\* SIGINT arrives before GracefulKiller has replaced the default handler:
\* KeyboardInterrupt leaves asyncio.run
EarlyInterrupt ==
    /\ pc = "start"
    /\ topHandler' = TopHandler("KeyboardInterrupt")
    /\ exitCode' = ExitStatus(topHandler')
    /\ pc' = "exited"
    /\ UNCHANGED <<crArgs, kill_now, conn, crVars, seqVars, handler, cleanups>>

-----------------------------------------------------------------------------
(* Specifications *)

InitCommon ==
    /\ kill_now = FALSE
    /\ conn = "None"
    /\ attempt = 0
    /\ attempts = 0
    /\ sleeps = <<>>
    /\ crRet = "none"
    /\ dcOpen = "none"
    /\ log = <<>>
    /\ response = NoResponse
    /\ parsed = FALSE
    /\ current_motion_switcher_mode = Unbound
    /\ lastStatus = NoResponse.code
    /\ i = 0
    /\ idleSecs = 0
    /\ handler = "none"
    /\ cleanups = 0
    /\ topHandler = "none"
    /\ exitCode = NoExit

\* the script is started; connect_with_retry has its default arguments
Init ==
    /\ pc = "start"
    /\ caller = "main"
    /\ failFirst \in {Always} \cup (0..MaxFailFirst)
    /\ max_retries = DefaultMaxRetries
    /\ delay = DefaultDelay
    /\ InitCommon

Next ==
    \/ StartMain
    \/ EarlyInterrupt
    \/ HandleSignal
    \/ CrWakeFromConnect
    \/ CrWakeFromSleep
    \/ WakeFromDcOpen
    \/ WakeFromQuery
    \/ WakeFromSwitchNormal
    \/ WakeFromSwitchNormalPause
    \/ WakeFromHello
    \/ WakeFromHelloPause
    \/ WakeFromMoveForward
    \/ WakeFromMoveForwardPause
    \/ WakeFromMoveBackward
    \/ WakeFromMoveBackwardPause
    \/ WakeFromSwitchAi
    \/ WakeFromSwitchAiPause
    \/ WakeFromStandOutOn
    \/ WakeFromStandOutPause
    \/ WakeFromStandOutOff
    \/ WakeFromIdlePause
    \/ WakeFromCleanup
    \/ ProgramExit

Spec == Init /\ [][Next]_vars

\* every asyncio.sleep(1) of the idle loop returns: the event loop's timer
\* resumes main after the second has passed
SpecLive == Spec /\ WF_vars(WakeFromIdlePause)

\* connect_with_retry alone, called by a test with a stub connection
InitRetry ==
    /\ pc = "test_call"
    /\ caller = "test"
    /\ failFirst \in {Always} \cup (0..MaxFailFirst)
    /\ max_retries \in (-1)..MaxRetriesArg
    /\ delay \in TestDelays
    /\ InitCommon

NextRetry ==
    \/ TestCall
    \/ CrWakeFromConnect
    \/ CrWakeFromSleep

SpecRetry == InitRetry /\ [][NextRetry]_vars

-----------------------------------------------------------------------------
(* Properties *)

Repeat(x, n) == [k \in 1..n |-> x]
CrDone == pc \in {"cr_returned", "cr_raised"}
MainDone == pc \in {"main_returned", "main_raised"}

\* C1: once kill_now is true, the step that resumes main from the wait it is
\* suspended in publishes no request (and no later step does).
C1_NoRequestOnceFlagSet ==
    [][kill_now => Requests(log') = Requests(log)]_vars

\* C2: with a stub whose first k connects fail and whose next one succeeds,
\* k < max_retries, connect_with_retry makes k+1 connect calls, sleeps k times
\* for `delay`, returns True, and never calls connect after the success.
C2_FailsThenSucceeds ==
    (failFirst # Always /\ failFirst < max_retries) =>
        /\ attempts <= failFirst + 1
        /\ CrDone => /\ pc = "cr_returned"
                     /\ crRet = "True"
                     /\ attempts = failFirst + 1
                     /\ sleeps = Repeat(delay, failFirst)

C2_Witness ==
    /\ pc = "cr_returned" /\ failFirst = 2 /\ max_retries = 3
    /\ crRet = "True" /\ attempts = 3 /\ sleeps = <<delay, delay>>

\* C3: with a stub whose every connect fails and max_retries >= 1,
\* connect_with_retry makes max_retries connect calls, sleeps max_retries - 1
\* times for `delay` (not after the last failure) and returns False.
C3_AlwaysFails ==
    ((failFirst = Always \/ failFirst >= max_retries) /\ max_retries >= 1) =>
        /\ attempts <= max_retries
        /\ Len(sleeps) <= max_retries - 1
        /\ CrDone => /\ pc = "cr_returned"
                     /\ crRet = "False"
                     /\ attempts = max_retries
                     /\ sleeps = Repeat(delay, max_retries - 1)

C3_Witness ==
    /\ pc = "cr_returned" /\ failFirst = Always /\ max_retries = 3
    /\ crRet = "False" /\ attempts = 3 /\ sleeps = <<delay, delay>>

\* C4 as stated: whenever main is over, no exception has left it and the
\* cleanup block has run exactly once.
C4_CleanupExactlyOnce ==
    MainDone => pc = "main_returned" /\ cleanups = 1

\* C4 amended: whenever main is over, no exception has left it, and the cleanup
\* block has run exactly once if the connection object was constructed and not
\* at all if its construction raised; it never runs twice.
C4_CleanupOncePerConnection ==
    /\ cleanups <= 1
    /\ MainDone => /\ pc = "main_returned"
                   /\ cleanups = IF conn = "None" THEN 0 ELSE 1

C4_Witness ==
    /\ pc = "main_returned" /\ handler = "unexpected"
    /\ Len(log) >= 1 /\ cleanups = 1

\* C5: connect_with_retry never raises: whatever the connect call raises, the
\* function goes on until it returns True (after a connect that succeeded) or
\* False (after failures only).
C5_NeverRaises ==
    /\ pc # "cr_raised"
    /\ crRet = "none" <=> pc # "cr_returned"
    /\ pc # "cr_returned" => ENABLED NextRetry
    /\ pc = "cr_returned" =>
         /\ crRet \in {"True", "False"}
         /\ crRet = "True" <=> (attempts >= 1 /\ ~StubFails(attempts))

C5_Witness ==
    /\ pc = "cr_returned" /\ crRet = "True" /\ attempts = 2 /\ failFirst = 1

\* C6: when the process has exited its exit status is 0, and it has none before.
C6_ExitStatusZero ==
    IF pc = "exited" THEN exitCode = 0 ELSE exitCode = NoExit

C6_Witness ==
    pc = "exited" /\ exitCode = 0 /\ topHandler = "interrupted"

\* C7: after a mode query answered with status 0 and a mode name: if the mode
\* is "normal" the request after the query (if any) is Hello and the pause
\* after that is Hello's, so no switch and no 5-unit pause; otherwise the
\* request after the query is the switch to "normal", followed by the 5-unit
\* pause and then (if any) Hello.
C7_SwitchIffNotNormal ==
    (response.code = 0 /\ current_motion_switcher_mode # Unbound) =>
        /\ log[1] = QueryMode
        /\ IF current_motion_switcher_mode = "normal"
             THEN /\ Len(log) >= 2 => log[2] = Hello
                  /\ Len(log) >= 3 => log[3] = Pause(PauseAfterHello)
                  /\ \A k \in 1..Len(log) : log[k] # SwitchNormal
             ELSE /\ Len(log) >= 2 /\ log[2] = SwitchNormal
                  /\ Len(log) >= 3 => log[3] = Pause(PauseAfterSwitchNormal)
                  /\ Len(log) >= 4 => log[4] = Hello

C7_Witness ==
    /\ current_motion_switcher_mode = "normal" /\ response.code = 0
    /\ pc = "sleep_hello" /\ log = <<QueryMode, Hello, Pause(PauseAfterHello)>>

\* C8: after a mode query answered with a nonzero status code, the data was
\* not parsed and the mode variable is still unassigned.
C8_NonzeroStatusNotParsed ==
    (response # NoResponse /\ response.code # 0) =>
        ~parsed /\ current_motion_switcher_mode = Unbound

C8_Witness ==
    /\ response.code = 3203 /\ response.data = "{\"name\": \"normal\"}"
    /\ ~parsed /\ current_motion_switcher_mode = Unbound /\ pc = "main_returned"

\* C9: after wait_datachannel_open failed with a timeout error, no request is
\* ever published, the timeout clause handled it, cleanup runs once, and the
\* process goes on to exit with status 0.
C9_TimeoutNoPublish ==
    dcOpen = "TimeoutError" =>
        /\ log = <<>>
        /\ handler = "timeout"
        /\ cleanups = 1
        /\ pc \in {"cleanup_sleep", "main_returned", "exited"}
        /\ pc = "exited" => exitCode = 0
        /\ pc # "exited" => ENABLED Next

C9_Witness ==
    dcOpen = "TimeoutError" /\ pc = "exited" /\ exitCode = 0 /\ cleanups = 1

\* C10: once kill_now is true while connect_with_retry is running, no further
\* connect attempt is started.
C10_BootstrapPollsFlag ==
    [][(kill_now /\ pc \in {"await_connect", "retry_sleep"}) => attempts' = attempts]_vars


IsPrefix(a, b) == Len(a) <= Len(b) /\ \A k \in 1..Len(a) : a[k] = b[k]
NoRepeat(a) == \A j, k \in 1..Len(a) : a[j] = a[k] => j = k
OrderWithoutSwitch ==
    <<QueryMode, Hello, MoveForward, MoveBackward, SwitchAi, StandOutOn, StandOutOff>>
OrderWithSwitch ==
    <<QueryMode, SwitchNormal, Hello, MoveForward, MoveBackward, SwitchAi,
      StandOutOn, StandOutOff>>

\* C11: the requests published so far are always a prefix of the fixed order
\* (with or without the switch to "normal"); the idle loop is entered only
\* after the whole order, and a run that ends with no signal and no error has
\* published the whole order and been through the whole idle loop.
C11_RequestsInOrder ==
    /\ \/ IsPrefix(Requests(log), OrderWithoutSwitch)
       \/ IsPrefix(Requests(log), OrderWithSwitch)
    /\ pc = "sleep_idle" => Requests(log) \in {OrderWithoutSwitch, OrderWithSwitch}
    /\ (MainDone /\ ~kill_now /\ handler = "none" /\ crRet = "True") =>
           /\ Requests(log) \in {OrderWithoutSwitch, OrderWithSwitch}
           /\ i = IdleCount

C11_Witness ==
    /\ pc = "main_returned" /\ ~kill_now /\ handler = "none"
    /\ Requests(log) = OrderWithSwitch /\ i = IdleCount

\* C12: a response with a nonzero status code makes its step fail: the step
\* that receives it does not go on to the pause or request that follows.
C12_NonzeroStatusFailsStep ==
    [][(lastStatus' # lastStatus /\ lastStatus' # 0) => (log' = log /\ pc' # "sleep_idle")]_vars

\* C13: once an except clause of main has run, no request is published any
\* more, and no request is ever published twice in a run.
C13_AbortNoRetry ==
    [][(handler # "none" => log' = log) /\ NoRepeat(Requests(log'))]_vars

C13_Witness ==
    /\ handler = "connection" /\ pc = "exited"
    /\ Requests(log) = <<QueryMode, SwitchNormal, Hello>>

\* C14: a request is published only after connect_with_retry returned True
\* and wait_datachannel_open returned; after connect_with_retry returned
\* False, main has not waited for the data channel, has published nothing,
\* and is in or past cleanup with no except clause run.
C14_PublishOnlyWhenOpen ==
    /\ log # <<>> => crRet = "True" /\ dcOpen = "ok"
    /\ dcOpen # "none" => crRet = "True"
    /\ crRet = "False" =>
         /\ dcOpen = "none" /\ log = <<>>
         /\ handler = "none" /\ cleanups = 1
         /\ pc \in {"cleanup_sleep", "main_returned", "exited"}

C14_Witness ==
    crRet = "False" /\ pc = "cleanup_sleep" /\ attempts = DefaultMaxRetries /\ log = <<>>


\* C15: kill_now starts false, only _handle_signal changes it, and it never
\* goes back to false; the step that sets it changes nothing else, so main
\* stays suspended at the same await with the same connection and log.
C15_FlagOnlySetByHandler ==
    /\ kill_now = FALSE
    /\ [][/\ kill_now => kill_now'
          /\ kill_now' # kill_now =>
                /\ pc \notin {"start", "exited"}
                /\ UNCHANGED <<pc, crArgs, conn, crVars, seqVars, handler,
                               cleanups, topVars>>]_vars

C15_Witness ==
    kill_now /\ pc = "await_move_forward" /\ handler = "none"

\* C16: the idle loop asks for at most 600 pauses of one second each, starts a
\* pause only with kill_now false, publishes nothing, leaves for cleanup at
\* the end of the pause during which kill_now became true, and every idle
\* pause leads to cleanup.
C16_IdleLoopEnds ==
    /\ [](i <= IdleCount /\ idleSecs = i * IdlePause)
    /\ [][i' # i => ~kill_now /\ i' = i + 1 /\ pc' = "sleep_idle"]_vars
    /\ [][pc = "sleep_idle" => log' = log]_vars
    /\ [][(pc = "sleep_idle" /\ kill_now) => (pc' = "sleep_idle" => UNCHANGED vars)]_vars
    /\ [][(pc = "sleep_idle" /\ pc' # "sleep_idle") =>
            (pc' = "cleanup_sleep" /\ cleanups' = cleanups + 1 /\ (kill_now \/ i = IdleCount))]_vars
    /\ (pc = "sleep_idle") ~> (pc = "cleanup_sleep")

C16_Witness ==
    pc = "cleanup_sleep" /\ kill_now /\ i = 3 /\ handler = "none"

\* C17: after a mode query answered with a nonzero status code the only
\* request ever published is the query, the catch-all clause has run (the
\* unassigned mode variable was compared), and main is in or past cleanup.
C17_NonzeroStatusAborts ==
    (response # NoResponse /\ response.code # 0) =>
        /\ log = <<QueryMode>>
        /\ handler = "unexpected"
        /\ cleanups = 1
        /\ pc \in {"cleanup_sleep", "main_returned", "exited"}

C17_Witness ==
    /\ response.code = 3203 /\ response.data = "{\"name\": \"ai\"}"
    /\ log = <<QueryMode>> /\ handler = "unexpected" /\ pc = "cleanup_sleep"

\* C18: called with max_retries <= 0, connect_with_retry calls connect not
\* once, never sleeps, and returns False.
C18_NoRetriesNoAttempt ==
    max_retries <= 0 =>
        /\ attempts = 0 /\ sleeps = <<>>
        /\ pc \in {"test_call", "cr_returned"}
        /\ pc = "test_call" => ENABLED TestCall
        /\ pc = "cr_returned" => crRet = "False"

C18_Witness ==
    pc = "cr_returned" /\ max_retries = 0 /\ crRet = "False" /\ attempts = 0

====
